---- MODULE Spec2Model ----
(***************************************************************************)
(* Host-side adapter of the Gauss engine (packages/gauss/src): backend     *)
(* selection and memoization (backend.ts), the Provider facade and its     *)
(* handle lifecycle (provider.ts) and the Agent facade with its mode       *)
(* selection (agent.ts).  The host runs one cooperative event loop, so     *)
(* every synchronous function body is one atomic action; an async call is  *)
(* split into its synchronous part and the later settlement of its future. *)
(***************************************************************************)
EXTENDS Integers, Sequences, FiniteSets

\* ------------------------------------------------------------------ bounds
\* Facade-level operations performed in one behaviour.
MaxOps == 5
\* Entries of an agent's tool table.
MaxTools == 2
\* Tool calls the engine issues to the bridge during one run.
MaxCalls == 2
\* Steps of the engine's loop during one run.
MaxSteps == 2

\* The facades the host constructs, the test doubles setBackend may install,
\* the handles the native engine hands out and the tool names in use.
Providers == {1}
Agents == {1}
Mocks == {1}
Handles == {0, 1}
ToolNames == {"A", "B"}
\* The argument values the engine puts into a tool call.
ToolArgs == {"x", "y"}

\* ------------------------------------------------------------- environment
\* What require() of a candidate module does in this process: it throws
\* ("missing"), returns a module lacking the operations of the contract
\* ("incompatible"), or returns a usable module ("ok").
ModuleStates == {"missing", "incompatible", "ok"}

NapiModule == "@giulio-leone/gauss-core-napi"
WasmModule == "@giulio-leone/gauss-core-wasm"

\* The messages of the three errors the host layer raises itself, as the
\* sequence of their parts.
NoBackendMessage ==
    << "No Gauss backend found. Install ", NapiModule, " (Node.js) or ",
       WasmModule, " (Browser/Edge)." >>
DestroyedMessage == << "Provider has been destroyed" >>
EngineMessage == << "engine failure" >>
UnresolvedMessage(tool) == << "No execute function for tool: ", tool >>
\* The error a host implementation raises, thrown or as a rejected future:
\* by which entry of the table, on which arguments.
HostMessage(entry, args) == << "tool failure", entry, args >>

Names(message, part) == \E i \in 1..Len(message) : message[i] = part

VARIABLES
    napiMod,        \* environment: what require(NapiModule) does
    wasmMod,        \* environment: what require(WasmModule) does
    _backend,       \* backend.ts: let _backend: Backend | null
    detectCalls,    \* number of detectBackend() executions (object identity)
    provs,          \* Provider facades: exists, handle, destroyed
    agents,         \* Agent facades: exists, provider, tools
    genPending,     \* per provider: the generate() calls not yet settled
    runPending,     \* per agent: the run() calls not yet settled, with the
                    \* state of the engine's run and of its bridge invocations
    destroyLog,     \* per provider: one entry per destroy() invocation
    everSelected,   \* getBackend() has returned a backend at least once
    firstSelected,  \* the backend the first successful getBackend() returned
    overridden,     \* setBackend() was called after that first success
    opCount,        \* facade-level operations performed so far
    last            \* the most recent operation and what it did

vars == << napiMod, wasmMod, _backend, detectCalls, provs, agents,
           genPending, runPending, destroyLog, everSelected, firstSelected,
           overridden, opCount, last >>

\* ---------------------------------------------------------------- backends
None == [kind |-> "none", id |-> 0]
MockBackend(m) == [kind |-> "mock", id |-> m]

\* require(name): TRUE iff it returns a module instead of throwing.
require(mod) == mod # "missing"

\* createNapiBackend / createWasmBackend build an object literal of closures
\* over the module; they inspect nothing and never throw.
createNapiBackend(id) == [kind |-> "napi", id |-> id]
createWasmBackend(id) == [kind |-> "wasm", id |-> id]

\* A candidate tried second although the first one loads.
detectBackend_WasmFirst ==
    IF require(wasmMod)
    THEN [ok |-> TRUE, backend |-> createWasmBackend(detectCalls + 1),
          probes |-> << WasmModule >>, message |-> << >>]
    ELSE IF require(napiMod)
    THEN [ok |-> TRUE, backend |-> createNapiBackend(detectCalls + 1),
          probes |-> << WasmModule, NapiModule >>, message |-> << >>]
    ELSE [ok |-> FALSE, backend |-> None,
          probes |-> << WasmModule, NapiModule >>, message |-> NoBackendMessage]

\* The candidate tried first changes from one execution to the next.
detectBackend_Alternating ==
    IF detectCalls % 2 = 1
    THEN detectBackend_WasmFirst
    ELSE IF require(napiMod)
    THEN [ok |-> TRUE, backend |-> createNapiBackend(detectCalls + 1),
          probes |-> << NapiModule >>, message |-> << >>]
    ELSE IF require(wasmMod)
    THEN [ok |-> TRUE, backend |-> createWasmBackend(detectCalls + 1),
          probes |-> << NapiModule, WasmModule >>, message |-> << >>]
    ELSE [ok |-> FALSE, backend |-> None,
          probes |-> << NapiModule, WasmModule >>, message |-> NoBackendMessage]

\* detectBackend(): NAPI in a try block, then WASM in a try block, then throw.
\* probes lists the modules require() was called on, in order.
detectBackend ==
    IF require(napiMod)
    THEN [ok |-> TRUE, backend |-> createNapiBackend(detectCalls + 1),
          probes |-> << NapiModule >>, message |-> << >>]
    ELSE IF require(wasmMod)
    THEN [ok |-> TRUE, backend |-> createWasmBackend(detectCalls + 1),
          probes |-> << NapiModule, WasmModule >>, message |-> << >>]
    ELSE [ok |-> FALSE, backend |-> None,
          probes |-> << NapiModule, WasmModule >>, message |-> NoBackendMessage]

\* The memo is ignored: every call detects again.
getBackend_AlwaysDetect == detectBackend

\* getBackend(): detect only while _backend is null.  The result carries the
\* backend returned (or the error thrown) and the probes made by this call.
getBackend ==
    IF _backend = None
    THEN detectBackend
    ELSE [ok |-> TRUE, backend |-> _backend, probes |-> << >>, message |-> << >>]

\* A failed detection is remembered: _backend holds a marker of it.
Memoized_Failure(res) ==
    IF res.ok THEN res.backend
    ELSE IF Len(res.probes) > 0 THEN [kind |-> "failed", id |-> 0]
    ELSE _backend

\* The value of _backend after a getBackend() with result res: the assignment
\* happens only when detectBackend() returned.
Memoized(res) == IF res.ok THEN res.backend ELSE _backend
Detected(res) == IF Len(res.probes) > 0 THEN detectCalls + 1 ELSE detectCalls

\* A backend whose native module lacks the operations of the contract: every
\* call through it throws (calling undefined).
Incompatible(b) ==
    \/ b.kind = "napi" /\ napiMod = "incompatible"
    \/ b.kind = "wasm" /\ wasmMod = "incompatible"

\* What a call into the native module may do: return or throw.
CallOutcomes(b) == IF Incompatible(b) THEN {"throw"} ELSE {"ok", "throw"}

\* ------------------------------------------------------------------ facades
NoProvider == [exists |-> FALSE, handle |-> -1, destroyed |-> FALSE]
NoAgent == [exists |-> FALSE, provider |-> 0, tools |-> << >>]

ToolDefs == [name : ToolNames, execute : {"function", "undefined"}]
ToolTables == UNION { [1..n -> ToolDefs] : n \in 0..MaxTools }

\* The handle is handed out although the facade is destroyed.
getHandle_NoCheck(p) ==
    [ok |-> TRUE, handle |-> provs[p].handle, message |-> << >>]

\* Provider.getHandle()
getHandle(p) ==
    IF provs[p].destroyed
    THEN [ok |-> FALSE, handle |-> -1, message |-> DestroyedMessage]
    ELSE [ok |-> TRUE, handle |-> provs[p].handle, message |-> << >>]

\* Mode B only when every tool carries an implementation.
hasExecuteFns_Every(tools) ==
    /\ Len(tools) > 0
    /\ \A i \in 1..Len(tools) : tools[i].execute = "function"

\* Every run registers a bridge, whatever the table holds.
hasExecuteFns_Always(tools) == TRUE

\* tools.some((t) => typeof t.execute === 'function')
hasExecuteFns(tools) == \E i \in 1..Len(tools) : tools[i].execute = "function"

\* tools.map((t) => ({name, description, parameters})): the names, in order.
toolSchemas(tools) == [i \in 1..Len(tools) |-> tools[i].name]

\* The name is resolved to the first entry that carries an implementation,
\* whatever its name.
executorMap_AnyName(tools) ==
    LET impl == { i \in 1..Len(tools) : tools[i].execute = "function" }
    IN  [n \in (IF impl = {} THEN {} ELSE ToolNames) |->
            CHOOSE i \in impl : \A j \in impl : i <= j]

\* executorMap: for (const t of tools) if (t.execute) executorMap.set(t.name,
\* t.execute).  A later entry of the same name replaces an earlier one; the
\* map gives the index of the entry whose execute is stored under a name.
executorMap(tools) ==
    LET impl == { i \in 1..Len(tools) : tools[i].execute = "function" }
    IN  [n \in { tools[i].name : i \in impl } |->
            CHOOSE i \in impl :
                /\ tools[i].name = n
                /\ \A j \in impl : tools[j].name = n => j <= i]

\* The text of a tool-call envelope, {"tool": ..., "args": ...}, as the
\* sequence of its tokens, and JSON.parse of it with the destructuring
\* const { tool, args } = JSON.parse(callJson).
CallJson(tool, args) == << "{", "tool", tool, "args", args, "}" >>
ParseCall(callJson) == [tool |-> callJson[3], args |-> callJson[5]]

\* How an invoked host implementation ends: its future resolves, its future
\* rejects, or it throws before returning one.
HostOutcomes == {"resolve", "reject", "throw"}

\* What a host implementation resolves to, and JSON.stringify of it.
HostValue(entry, args) == [entry |-> entry, args |-> args]
JsonStringify(value) == << "json", value.entry, value.args >>

\* A miss is answered with the text "null" instead of an error.
toolExecutor_NullOnMiss(map, callJson) ==
    LET call == ParseCall(callJson)
    IN  IF call.tool \in DOMAIN map
        THEN [state |-> "executing", entry |-> map[call.tool],
              passed |-> call.args, result |-> << >>, message |-> << >>]
        ELSE [state |-> "resolved", entry |-> 0, passed |-> call.args,
              result |-> << "null" >>, message |-> << >>]

\* A miss waits for an answer nobody gives.
toolExecutor_HangOnMiss(map, callJson) ==
    LET call == ParseCall(callJson)
    IN  [state |-> "executing",
         entry |-> IF call.tool \in DOMAIN map THEN map[call.tool] ELSE 0,
         passed |-> call.args, result |-> << >>, message |-> << >>]

\* An invocation takes its entry out of the table.
mapAfterCall_Consume(map, callJson) ==
    [t \in DOMAIN map \ {ParseCall(callJson).tool} |-> map[t]]

\* The table after an invocation of toolExecutor: the closure only reads it,
\* with executorMap.get.
mapAfterCall(map, callJson) == map

\* On a miss the invocation falls back on an implementation of the table.
toolExecutor_Fallback(map, callJson) ==
    LET call == ParseCall(callJson)
        name == IF call.tool \in DOMAIN map \/ DOMAIN map = {}
                THEN call.tool
                ELSE CHOOSE t \in DOMAIN map : TRUE
    IN  IF name \in DOMAIN map
        THEN [state |-> "executing", entry |-> map[name],
              passed |-> call.args, result |-> << >>, message |-> << >>]
        ELSE [state |-> "rejected", entry |-> 0, passed |-> call.args,
              result |-> << >>, message |-> UnresolvedMessage(call.tool)]

\* The invocation answers on a hit without waiting for the implementation.
toolExecutor_NoAwait(map, callJson) ==
    LET call == ParseCall(callJson)
    IN  IF call.tool \in DOMAIN map
        THEN [state |-> "resolved", entry |-> map[call.tool],
              passed |-> call.args,
              result |-> JsonStringify(HostValue(map[call.tool], call.args)),
              message |-> << >>]
        ELSE [state |-> "rejected", entry |-> 0, passed |-> call.args,
              result |-> << >>, message |-> UnresolvedMessage(call.tool)]

\* toolExecutor, up to the await: parse the envelope, look the name up, throw
\* on a miss (the invocation rejects), else call fn(args) and wait for it.
\* entry is the table entry whose execute is invoked, 0 when none is.
toolExecutor(map, callJson) ==
    LET call == ParseCall(callJson)
    IN  IF call.tool \in DOMAIN map
        THEN [state |-> "executing", entry |-> map[call.tool],
              passed |-> call.args, result |-> << >>, message |-> << >>]
        ELSE [state |-> "rejected", entry |-> 0, passed |-> call.args,
              result |-> << >>, message |-> UnresolvedMessage(call.tool)]

\* The error of the implementation is swallowed and a text returned.
bridgeSettle_Recover(calls, c, out) ==
    [state |-> "resolved",
     result |-> JsonStringify(HostValue(calls[c].entry, calls[c].passed)),
     message |-> << >>]

\* One slot holds the arguments of the invocation in progress: the one that
\* started last.
bridgeSettle_Shared(calls, c, out) ==
    IF out = "resolve"
    THEN [state |-> "resolved",
          result |-> JsonStringify(HostValue(calls[c].entry,
                                             calls[Len(calls)].passed)),
          message |-> << >>]
    ELSE [state |-> "rejected", result |-> << >>,
          message |-> HostMessage(calls[c].entry, calls[c].passed)]

\* toolExecutor, after the await, for invocation c of a run:
\* const result = await fn(args); return JSON.stringify(result).  fn and args
\* are locals of the invocation.  An error of fn(args), thrown or rejected,
\* rejects the invocation with that error.
bridgeSettle(calls, c, out) ==
    IF out = "resolve"
    THEN [state |-> "resolved",
          result |-> JsonStringify(HostValue(calls[c].entry, calls[c].passed)),
          message |-> << >>]
    ELSE [state |-> "rejected", result |-> << >>,
          message |-> HostMessage(calls[c].entry, calls[c].passed)]

\* What reaches the native module when a backend method of the agent is
\* called: the native function, whether it is handed the toolExecutor, and
\* the tool schemas it gets.  A test double gets the arguments as they are.
NoTools == << "no tools" >>

\* The Envelope backend refuses the callback entry point.
wasmAgentRunWithToolExecutor_Throws(schemas) ==
    [native |-> "none", executor |-> FALSE, tools |-> NoTools,
     message |-> << "CapabilityUnavailable" >>]

\* createWasmBackend.agentRun: wasm.agentRun(name, handle, messages, options).
wasmAgentRun(schemas) ==
    [native |-> "agentRun", executor |-> FALSE, tools |-> NoTools,
     message |-> << >>]

\* createWasmBackend.agentRunWithToolExecutor: return this.agentRun(...).
wasmAgentRunWithToolExecutor(schemas) == wasmAgentRun(schemas)

\* createNapiBackend.agentRun / agentRunWithToolExecutor.
napiAgentRun(schemas) ==
    [native |-> "agentRun", executor |-> FALSE, tools |-> schemas,
     message |-> << >>]
napiAgentRunWithToolExecutor(schemas) ==
    [native |-> "agentRunWithToolExecutor", executor |-> TRUE,
     tools |-> schemas, message |-> << >>]

NativeCall(b, method, schemas) ==
    IF b.kind = "wasm"
    THEN IF method = "agentRun"
         THEN wasmAgentRun(schemas)
         ELSE wasmAgentRunWithToolExecutor(schemas)
    ELSE IF method = "agentRun"
         THEN napiAgentRun(schemas)
         ELSE napiAgentRunWithToolExecutor(schemas)

\* The facade calls the backend again when the call failed.
Forward_Retry(issued, result) ==
    IF result.outcome # "ok" /\ issued < 2
    THEN [settled |-> FALSE, outcome |-> "pending", message |-> << >>]
    ELSE [settled |-> TRUE, outcome |-> result.outcome, message |-> result.message]

\* return backend.generate(...) / return backend.agentRun(...): the future of
\* the facade operation takes the outcome of the backend's future.
Forward(issued, result) ==
    [settled |-> TRUE, outcome |-> result.outcome, message |-> result.message]

\* The outcome of the native module's future.
EngineResult(out) ==
    IF out = "ok"
    THEN [outcome |-> "ok", message |-> << >>]
    ELSE [outcome |-> "EngineError", message |-> EngineMessage]
NoResult == [outcome |-> "none", message |-> << >>]

\* One call of backend.generate in flight.
GenEntry(b) == [backend |-> b, issued |-> 1]

\* One call of backend.agentRun / agentRunWithToolExecutor in flight: the
\* tool list as run() found it, the arguments the facade passed, what the
\* backend handed to the native module,
\* the executorMap of the run, and the engine's progress: its step, the tool
\* calls it made through the bridge, and the failure it stopped on.
NoRun ==
    [backend |-> None, method |-> "none", handle |-> 0, table |-> << >>,
     schemas |-> << >>,
     native |-> [native |-> "none", executor |-> FALSE, tools |-> NoTools,
                 message |-> << >>],
     map |-> << >>, issued |-> 0, calls |-> << >>, step |-> 0,
     failed |-> NoResult]
RunEntry(b, method, h, tools) ==
    LET native == NativeCall(b, method, toolSchemas(tools))
    IN  [backend |-> b, method |-> method, handle |-> h, table |-> tools,
         schemas |-> toolSchemas(tools), native |-> native,
         map |-> IF method = "agentRunWithToolExecutor"
                 THEN executorMap(tools) ELSE << >>,
         issued |-> 1, calls |-> << >>, step |-> 1,
         failed |-> IF native.message = << >> THEN NoResult
                    ELSE [outcome |-> native.message[1],
                          message |-> native.message]]

\* ------------------------------------------------------------- marshalling
\* The values of an optional field: the caller left it out, or gave a value;
\* null is what an adapter may put in its place.
Undefined == "undefined"
Null == "null"
Value == "value"
OptionalValues == {Undefined, Value}

\* a ?? b
Coalesce(a, b) == IF a \in {Undefined, Null} THEN b ELSE a

\* The optional fields of ProviderOptions, of generate(), of AgentOptions.
ProviderOptionKeys == {"baseUrl", "timeoutMs", "maxRetries", "organization"}
GenerateKeys == {"temperature", "maxTokens"}
AgentOptionKeys ==
    {"instructions", "maxSteps", "temperature", "topP", "maxTokens", "seed",
     "stopOnTool", "outputSchema"}

\* The backend methods that carry optional fields, and the fields of each.
Methods ==
    {"createProvider", "generate", "generateWithTools", "agentRun",
     "agentRunWithToolExecutor"}
OptionKeys(method) ==
    IF method = "createProvider" THEN ProviderOptionKeys
    ELSE IF method \in {"generate", "generateWithTools"} THEN GenerateKeys
    ELSE AgentOptionKeys
TakesTools(method) ==
    method \in {"generateWithTools", "agentRun", "agentRunWithToolExecutor"}

\* Tool schemas as the facade hands them to a backend: parameters is optional.
SchemaDefs == [name : ToolNames, parameters : OptionalValues]
SchemaTables == UNION { [1..n -> SchemaDefs] : n \in 0..MaxTools }

\* An absent field is passed through as it is: left out.
napiOptional_Omit(v) == v

\* NAPI adapter: x ?? null for every optional field.
napiOptional(v) == Coalesce(v, Null)

napiTools(tools) ==
    [i \in 1..Len(tools) |->
        [name |-> tools[i].name, parameters |-> napiOptional(tools[i].parameters)]]

\* createNapiBackend: what each method passes to the native module.
napiCall(method, options, tools) ==
    [fields |-> [k \in OptionKeys(method) |-> napiOptional(options[k])],
     tools |-> IF TakesTools(method) THEN napiTools(tools) ELSE NoTools]

\* Every key is written, null for a value that is undefined.
JsonStringifyObject_Nulls(obj) == [k \in DOMAIN obj |-> Coalesce(obj[k], Null)]

\* JSON.stringify of an object literal: a key whose value is undefined is
\* left out of the text.
JsonStringifyObject(obj) ==
    [k \in { j \in DOMAIN obj : obj[j] # Undefined } |-> obj[k]]

\* WASM adapter: x ?? undefined for a positional argument.
wasmOptional(v) == Coalesce(v, Undefined)

\* The keys of the object literal createWasmBackend.agentRun serializes.
WasmAgentOptionKeys ==
    {"instructions", "maxSteps", "temperature", "topP", "maxTokens",
     "stopOnTool", "outputSchema"}

\* createWasmBackend: what each method passes to the module.  createProvider
\* passes baseUrl only; generateWithTools is generate; agentRunWithToolExecutor
\* is agentRun; no method passes the tools.
wasmCall(method, options, tools) ==
    [fields |->
        IF method = "createProvider"
        THEN [k \in {"baseUrl"} |-> wasmOptional(options[k])]
        ELSE IF method \in {"generate", "generateWithTools"}
        THEN [k \in GenerateKeys |-> wasmOptional(options[k])]
        ELSE JsonStringifyObject([k \in WasmAgentOptionKeys |-> options[k]]),
     tools |-> NoTools]

\* What wasm.generate can answer: a text that parses to a generation, with or
\* without tool calls of its own, or a failure of the module.
NoGeneration == [text |-> "none", toolCalls |-> << >>]
ModuleReplies ==
    { [outcome |-> "ok", result |-> [text |-> "text", toolCalls |-> tc],
       message |-> << >>] : tc \in { << >>, << "A" >> } }
      \cup { [outcome |-> "EngineError", result |-> NoGeneration,
               message |-> EngineMessage] }
NoReply == [outcome |-> "none", result |-> NoGeneration, message |-> << >>]

\* The method refuses: the module has no generation with tools.
wasmGenerateWithTools_Throws(options, tools, reply) ==
    [calls |-> << >>, outcome |-> "CapabilityUnavailable",
     result |-> NoGeneration, message |-> << "generateWithTools" >>]

\* createWasmBackend.generateWithTools: one wasm.generate with the positional
\* arguments of generate, _tools unused; the parsed reply is spread and
\* toolCalls set to [].  A failure of wasm.generate rejects with its error.
wasmGenerateWithTools(options, tools, reply) ==
    [calls |-> << [fn |-> "generate",
                   wire |-> wasmCall("generate", options, << >>)] >>,
     outcome |-> reply.outcome,
     result |-> IF reply.outcome = "ok"
                THEN [reply.result EXCEPT !.toolCalls = << >>]
                ELSE NoGeneration,
     message |-> reply.message]
NoModuleCalls == [calls |-> << >>, outcome |-> "none", result |-> NoGeneration,
                  message |-> << >>]

\* A tool table with every field of ToolDef, and the AgentOptions that hold
\* it: every optional field left out, or every one set.
FullToolDefs ==
    [name : ToolNames, description : {"description"},
     parameters : OptionalValues, execute : {"function", "undefined"}]
FullToolTables == UNION { [1..n -> FullToolDefs] : n \in 0..MaxTools }
UniformOptions == { [k \in AgentOptionKeys |-> v] : v \in OptionalValues }

\* The entries of the table are passed as they are.
runToolSchemas_Raw(tools) == tools

\* Agent.run: tools.map((t) => ({name: t.name, description: t.description,
\* parameters: t.parameters})), a new object of three keys for each entry.
runToolSchemas(tools) ==
    [i \in 1..Len(tools) |->
        [name |-> tools[i].name, description |-> tools[i].description,
         parameters |-> tools[i].parameters]]

\* What run() hands to the backend method: the schema list, this.options
\* (the object the agent was created with, whose key tools holds the table),
\* and the toolExecutor callback in Mode B only.
runArguments(options, tools) ==
    [tools |-> runToolSchemas(tools),
     optionKeys |-> DOMAIN options \cup {"tools"},
     method |-> IF hasExecuteFns(tools) THEN "agentRunWithToolExecutor"
                                        ELSE "agentRun",
     callback |-> hasExecuteFns(tools)]
NoArguments == [tools |-> << >>, optionKeys |-> {}, method |-> "none",
                callback |-> FALSE]

BackendCall(kind, method, options, tools) ==
    IF kind = "napi" THEN napiCall(method, options, tools)
                     ELSE wasmCall(method, options, tools)

NoRequest == [kind |-> "none", method |-> "none", options |-> << >>,
              tools |-> << >>]
NoWire == [fields |-> << >>, tools |-> NoTools]

\* --------------------------------------------- the text of a resolved value
\* What the promise of an implementation can resolve to (execute returns
\* Promise<unknown>): an object built from the entry and its arguments, null,
\* or nothing at all.
ResolvedValues ==
    { [type |-> "object", entry |-> e, args |-> x] :
        e \in 1..MaxTools, x \in ToolArgs }
      \cup { [type |-> t, entry |-> 0, args |-> x] :
                t \in {Null, Undefined}, x \in ToolArgs }
NoValue == [type |-> "none", entry |-> 0, args |-> "x"]

\* JSON.stringify(result): a text for an object and for null; for undefined
\* it returns undefined, which is no text.
JsonStringifyResult(value) ==
    IF value.type = Undefined
    THEN [string |-> FALSE, text |-> << >>]
    ELSE IF value.type = Null
    THEN [string |-> TRUE, text |-> << "null" >>]
    ELSE [string |-> TRUE, text |-> JsonStringify(HostValue(value.entry, value.args))]
NoAnswer == [string |-> FALSE, text |-> << "none" >>]

\* ------------------------------------------------------------------ history
\* What an execution of the selection ended in: the candidate selected, or
\* the error raised.
NoSelection == [outcome |-> "none", kind |-> "none", message |-> << >>]
NoOp ==
    [op |-> "init", p |-> 0, a |-> 0, outcome |-> "none", message |-> << >>,
     call |-> "none", callHandle |-> -1, probes |-> << >>, ret |-> None,
     backendBefore |-> None, destroyedBefore |-> FALSE, destroysBefore |-> 0,
     selectedBefore |-> FALSE, resolved |-> FALSE, hasExec |-> FALSE,
     schemas |-> << >>, engine |-> NoResult, issued |-> 0, invoked |-> 0,
     run |-> NoRun, request |-> NoRequest, wire |-> NoWire,
     before |-> NoSelection, value |-> NoValue, answer |-> NoAnswer,
     reply |-> NoReply, generated |-> NoModuleCalls, handed |-> NoArguments]

\* The part of an operation's record every action fills in the same way.
Op(name, p, a) ==
    [NoOp EXCEPT !.op = name, !.p = p, !.a = a,
                 !.backendBefore = _backend,
                 !.selectedBefore = everSelected,
                 !.destroyedBefore = IF p \in Providers THEN provs[p].destroyed ELSE FALSE,
                 !.destroysBefore = IF p \in Providers THEN Len(destroyLog[p]) ELSE 0]

Init ==
    /\ napiMod \in ModuleStates
    /\ wasmMod \in ModuleStates
    /\ _backend = None
    /\ detectCalls = 0
    /\ provs = [p \in Providers |-> NoProvider]
    /\ agents = [a \in Agents |-> NoAgent]
    /\ genPending = [p \in Providers |-> << >>]
    /\ runPending = [a \in Agents |-> << >>]
    /\ destroyLog = [p \in Providers |-> << >>]
    /\ everSelected = FALSE
    /\ firstSelected = None
    /\ overridden = FALSE
    /\ opCount = 0
    /\ last = NoOp

\* State changes of a getBackend() with result res made inside an operation.
Resolve(res) ==
    /\ _backend' = Memoized(res)
    /\ detectCalls' = Detected(res)
    /\ everSelected' = (everSelected \/ res.ok)
    /\ firstSelected' = IF ~everSelected /\ res.ok THEN res.backend ELSE firstSelected
    /\ UNCHANGED overridden

\* The record of an operation that executed getBackend() with result res.
Resolved(rec, res) ==
    [rec EXCEPT !.resolved = TRUE, !.ret = res.backend, !.probes = res.probes]

\* The record of an operation that failed because getBackend() threw.
NoBackend(rec, res) ==
    [Resolved(rec, res) EXCEPT !.outcome = "ConfigurationError",
                               !.message = res.message]

\* ------------------------------------------------------------------ actions
\* The host calls the exported getBackend().
GetBackend ==
    /\ opCount < MaxOps
    /\ LET res == getBackend
           rec == Op("getBackend", 0, 0)
       IN  /\ Resolve(res)
           /\ last' = IF res.ok
                      THEN [Resolved(rec, res) EXCEPT !.outcome = "ok"]
                      ELSE NoBackend(rec, res)
    /\ opCount' = opCount + 1
    /\ UNCHANGED << napiMod, wasmMod, provs, agents, genPending,
                    runPending, destroyLog >>

\* The override takes effect only while no backend is active.
SetBackend_OnlyUnset(m) ==
    /\ opCount < MaxOps
    /\ _backend' = IF _backend = None THEN MockBackend(m) ELSE _backend
    /\ overridden' = (overridden \/ everSelected)
    /\ last' = [Op("setBackend", 0, 0) EXCEPT !.outcome = "ok"]
    /\ opCount' = opCount + 1
    /\ UNCHANGED << napiMod, wasmMod, detectCalls, provs, agents,
                    genPending, runPending, destroyLog, everSelected, firstSelected >>

\* setBackend(backend): _backend = backend, whatever it was.
SetBackend(m) ==
    /\ opCount < MaxOps
    /\ _backend' = MockBackend(m)
    /\ overridden' = (overridden \/ everSelected)
    /\ last' = [Op("setBackend", 0, 0) EXCEPT !.outcome = "ok"]
    /\ opCount' = opCount + 1
    /\ UNCHANGED << napiMod, wasmMod, detectCalls, provs, agents,
                    genPending, runPending, destroyLog, everSelected, firstSelected >>

\* createProvider(type, model, options): getBackend(), backend.createProvider,
\* new Provider(handle).
CreateProvider(p) ==
    /\ opCount < MaxOps
    /\ ~provs[p].exists
    /\ LET res == getBackend
           rec == Op("createProvider", p, 0)
       IN  /\ Resolve(res)
           /\ IF ~res.ok
              THEN /\ last' = NoBackend(rec, res)
                   /\ UNCHANGED provs
              ELSE \E out \in CallOutcomes(res.backend) :
                     IF out = "throw"
                     THEN /\ last' = [Resolved(rec, res) EXCEPT
                                        !.outcome = "EngineError",
                                        !.message = EngineMessage,
                                        !.call = "createProvider"]
                          /\ UNCHANGED provs
                     ELSE \E h \in Handles :
                          /\ provs' = [provs EXCEPT ![p] =
                                [exists |-> TRUE, handle |-> h,
                                 destroyed |-> FALSE]]
                          /\ last' = [Resolved(rec, res) EXCEPT
                                        !.outcome = "ok",
                                        !.call = "createProvider",
                                        !.callHandle = h]
    /\ opCount' = opCount + 1
    /\ UNCHANGED << napiMod, wasmMod, agents, genPending, runPending, destroyLog >>

\* new Provider(handle): the exported class constructed directly.
NewProvider(p, h) ==
    /\ opCount < MaxOps
    /\ ~provs[p].exists
    /\ provs' = [provs EXCEPT ![p] =
                    [exists |-> TRUE, handle |-> h, destroyed |-> FALSE]]
    /\ last' = [Op("newProvider", p, 0) EXCEPT !.outcome = "ok"]
    /\ opCount' = opCount + 1
    /\ UNCHANGED << napiMod, wasmMod, _backend, detectCalls, agents,
                    genPending, runPending, destroyLog, everSelected, firstSelected, overridden >>

\* The facade is marked destroyed before the backend is resolved and called.
Destroy_MarkFirst(p) ==
    /\ opCount < MaxOps
    /\ provs[p].exists
    /\ LET rec == Op("destroy", p, 0)
           Log(called, outcome) ==
               destroyLog' = [destroyLog EXCEPT ![p] =
                   Append(@, [called |-> called, outcome |-> outcome])]
       IN  IF provs[p].destroyed
           THEN /\ last' = [rec EXCEPT !.outcome = "ok"]
                /\ Log(FALSE, "ok")
                /\ UNCHANGED << provs, _backend, detectCalls, everSelected,
                                firstSelected, overridden >>
           ELSE LET res == getBackend IN
                /\ Resolve(res)
                /\ provs' = [provs EXCEPT ![p].destroyed = TRUE]
                /\ IF ~res.ok
                   THEN /\ last' = NoBackend(rec, res)
                        /\ Log(FALSE, "ConfigurationError")
                   ELSE \E out \in CallOutcomes(res.backend) :
                          /\ last' = [Resolved(rec, res) EXCEPT
                                        !.outcome = IF out = "throw"
                                                    THEN "EngineError" ELSE "ok",
                                        !.message = IF out = "throw"
                                                    THEN EngineMessage ELSE << >>,
                                        !.call = "destroyProvider",
                                        !.callHandle = provs[p].handle]
                          /\ Log(TRUE, IF out = "throw" THEN "EngineError" ELSE "ok")
    /\ opCount' = opCount + 1
    /\ UNCHANGED << napiMod, wasmMod, agents, genPending, runPending >>

\* A destroy() on a destroyed facade makes it usable again.
Destroy_Revive(p) ==
    /\ opCount < MaxOps
    /\ provs[p].exists
    /\ LET rec == Op("destroy", p, 0)
           Log(called, outcome) ==
               destroyLog' = [destroyLog EXCEPT ![p] =
                   Append(@, [called |-> called, outcome |-> outcome])]
       IN  IF provs[p].destroyed
           THEN /\ last' = [rec EXCEPT !.outcome = "ok"]
                /\ Log(FALSE, "ok")
                /\ provs' = [provs EXCEPT ![p].destroyed = FALSE]
                /\ UNCHANGED << _backend, detectCalls, everSelected,
                                firstSelected, overridden >>
           ELSE LET res == getBackend IN
                /\ Resolve(res)
                /\ IF ~res.ok
                   THEN /\ last' = NoBackend(rec, res)
                        /\ Log(FALSE, "ConfigurationError")
                        /\ UNCHANGED provs
                   ELSE \E out \in CallOutcomes(res.backend) :
                          IF out = "throw"
                          THEN /\ last' = [Resolved(rec, res) EXCEPT
                                             !.outcome = "EngineError",
                                             !.message = EngineMessage,
                                             !.call = "destroyProvider",
                                             !.callHandle = provs[p].handle]
                               /\ Log(TRUE, "EngineError")
                               /\ UNCHANGED provs
                          ELSE /\ last' = [Resolved(rec, res) EXCEPT
                                             !.outcome = "ok",
                                             !.call = "destroyProvider",
                                             !.callHandle = provs[p].handle]
                               /\ Log(TRUE, "ok")
                               /\ provs' = [provs EXCEPT ![p].destroyed = TRUE]
    /\ opCount' = opCount + 1
    /\ UNCHANGED << napiMod, wasmMod, agents, genPending, runPending >>

\* destroy() drops the generate() calls in flight on the facade.
Destroy_Cancels(p) ==
    /\ opCount < MaxOps
    /\ provs[p].exists
    /\ LET rec == Op("destroy", p, 0)
           Log(called, outcome) ==
               destroyLog' = [destroyLog EXCEPT ![p] =
                   Append(@, [called |-> called, outcome |-> outcome])]
       IN  IF provs[p].destroyed
           THEN /\ last' = [rec EXCEPT !.outcome = "ok"]
                /\ Log(FALSE, "ok")
                /\ UNCHANGED << provs, _backend, detectCalls, everSelected,
                                firstSelected, overridden >>
           ELSE LET res == getBackend IN
                /\ Resolve(res)
                /\ IF ~res.ok
                   THEN /\ last' = NoBackend(rec, res)
                        /\ Log(FALSE, "ConfigurationError")
                        /\ UNCHANGED provs
                   ELSE \E out \in CallOutcomes(res.backend) :
                          IF out = "throw"
                          THEN /\ last' = [Resolved(rec, res) EXCEPT
                                             !.outcome = "EngineError",
                                             !.message = EngineMessage,
                                             !.call = "destroyProvider",
                                             !.callHandle = provs[p].handle]
                               /\ Log(TRUE, "EngineError")
                               /\ UNCHANGED provs
                          ELSE /\ last' = [Resolved(rec, res) EXCEPT
                                             !.outcome = "ok",
                                             !.call = "destroyProvider",
                                             !.callHandle = provs[p].handle]
                               /\ Log(TRUE, "ok")
                               /\ provs' = [provs EXCEPT ![p].destroyed = TRUE]
    /\ opCount' = opCount + 1
    /\ genPending' = [genPending EXCEPT ![p] = << >>]
    /\ UNCHANGED << napiMod, wasmMod, agents, runPending >>

\* Provider.destroy().  destroyLog[p] gets one entry per invocation: whether
\* it invoked backend.destroyProvider and how it ended.
Destroy(p) ==
    /\ opCount < MaxOps
    /\ provs[p].exists
    /\ LET rec == Op("destroy", p, 0)
           Log(called, outcome) ==
               destroyLog' = [destroyLog EXCEPT ![p] =
                   Append(@, [called |-> called, outcome |-> outcome])]
       IN  IF provs[p].destroyed
           THEN /\ last' = [rec EXCEPT !.outcome = "ok"]
                /\ Log(FALSE, "ok")
                /\ UNCHANGED << provs, _backend, detectCalls, everSelected,
                                firstSelected, overridden >>
           ELSE LET res == getBackend IN
                /\ Resolve(res)
                /\ IF ~res.ok
                   THEN /\ last' = NoBackend(rec, res)
                        /\ Log(FALSE, "ConfigurationError")
                        /\ UNCHANGED provs
                   ELSE \E out \in CallOutcomes(res.backend) :
                          IF out = "throw"
                          THEN /\ last' = [Resolved(rec, res) EXCEPT
                                             !.outcome = "EngineError",
                                             !.message = EngineMessage,
                                             !.call = "destroyProvider",
                                             !.callHandle = provs[p].handle]
                               /\ Log(TRUE, "EngineError")
                               /\ UNCHANGED provs
                          ELSE /\ last' = [Resolved(rec, res) EXCEPT
                                             !.outcome = "ok",
                                             !.call = "destroyProvider",
                                             !.callHandle = provs[p].handle]
                               /\ Log(TRUE, "ok")
                               /\ provs' = [provs EXCEPT ![p].destroyed = TRUE]
    /\ opCount' = opCount + 1
    /\ UNCHANGED << napiMod, wasmMod, agents, genPending, runPending >>

\* Provider.generate(): the synchronous part of the async function, up to the
\* call of backend.generate, whose future is left pending.
Generate(p) ==
    /\ opCount < MaxOps
    /\ provs[p].exists
    /\ LET rec == Op("generate", p, 0) IN
       IF provs[p].destroyed
       THEN /\ last' = [rec EXCEPT !.outcome = "UseAfterDestroy",
                                   !.message = DestroyedMessage]
            /\ UNCHANGED << _backend, detectCalls, everSelected, firstSelected,
                            overridden, genPending >>
       ELSE LET res == getBackend IN
            /\ Resolve(res)
            /\ IF ~res.ok
               THEN /\ last' = NoBackend(rec, res)
                    /\ UNCHANGED genPending
               ELSE /\ last' = [Resolved(rec, res) EXCEPT
                                  !.outcome = "pending",
                                  !.call = "generate",
                                  !.callHandle = provs[p].handle]
                    /\ genPending' = [genPending EXCEPT ![p] =
                                        Append(@, GenEntry(res.backend))]
    /\ opCount' = opCount + 1
    /\ UNCHANGED << napiMod, wasmMod, provs, agents, runPending,
                    destroyLog >>

\* Settling one call drops every call in flight.
Remove_All(seq, i) == << >>

\* The pending calls without the i-th, which settled.
Remove(seq, i) == [j \in 1..(Len(seq) - 1) |-> IF j < i THEN seq[j] ELSE seq[j + 1]]

\* The future of one pending backend.generate settles, and with it the
\* future Provider.generate returned.
GenerateSettle(p, i) ==
    /\ i \in 1..Len(genPending[p])
    /\ \E out \in CallOutcomes(genPending[p][i].backend) :
         LET entry == genPending[p][i]
             f == Forward(entry.issued, EngineResult(out))
             rec == [Op("generateSettle", p, 0) EXCEPT
                        !.outcome = f.outcome, !.message = f.message,
                        !.engine = EngineResult(out)]
         IN  IF f.settled
             THEN /\ last' = [rec EXCEPT !.issued = entry.issued]
                  /\ genPending' = [genPending EXCEPT ![p] = Remove(@, i)]
             ELSE /\ last' = [rec EXCEPT !.issued = entry.issued + 1,
                                         !.call = "generate"]
                  /\ genPending' = [genPending EXCEPT ![p][i].issued = @ + 1]
    /\ UNCHANGED << napiMod, wasmMod, _backend, detectCalls, provs,
                    agents, runPending, destroyLog, everSelected, firstSelected,
                    overridden, opCount >>

\* createAgent(name, provider, options) / new Agent: stores its arguments.
CreateAgent(a, p, tools) ==
    /\ opCount < MaxOps
    /\ ~agents[a].exists
    /\ provs[p].exists
    /\ agents' = [agents EXCEPT ![a] =
                    [exists |-> TRUE, provider |-> p, tools |-> tools]]
    /\ last' = [Op("createAgent", p, a) EXCEPT !.outcome = "ok"]
    /\ opCount' = opCount + 1
    /\ UNCHANGED << napiMod, wasmMod, _backend, detectCalls, provs,
                    genPending, runPending, destroyLog, everSelected, firstSelected, overridden >>

\* Agent.run(messages): the synchronous part of the async function: getBackend,
\* the schemas, the mode, getHandle() while the arguments of the backend call
\* are evaluated, then the backend call, whose future is left pending.
Run(a) ==
    /\ opCount < MaxOps
    /\ agents[a].exists
    /\ LET p == agents[a].provider
           tools == agents[a].tools
           rec == [Op("run", p, a) EXCEPT !.hasExec = hasExecuteFns(tools),
                                          !.schemas = toolSchemas(tools)]
           res == getBackend
           h == getHandle(p)
       IN  /\ Resolve(res)
           /\ IF ~res.ok
              THEN /\ last' = NoBackend(rec, res)
                   /\ UNCHANGED runPending
              ELSE IF ~h.ok
              THEN /\ last' = [Resolved(rec, res) EXCEPT
                                 !.outcome = "UseAfterDestroy",
                                 !.message = h.message]
                   /\ UNCHANGED runPending
              ELSE LET method == IF hasExecuteFns(tools)
                                 THEN "agentRunWithToolExecutor"
                                 ELSE "agentRun"
                       entry == RunEntry(res.backend, method, h.handle, tools)
                   IN  /\ last' = [Resolved(rec, res) EXCEPT
                                     !.outcome = "pending",
                                     !.call = method,
                                     !.callHandle = h.handle,
                                     !.issued = 1,
                                     !.run = entry]
                       /\ runPending' = [runPending EXCEPT ![a] =
                                           Append(@, entry)]
    /\ opCount' = opCount + 1
    /\ UNCHANGED << napiMod, wasmMod, provs, agents, genPending,
                    destroyLog >>

\* How the engine's run can end.  It ends with the failure it stopped on
\* when there is one; otherwise it may fail on its own, or on the failure of
\* one of its tool calls, and it completes only when every tool call it made
\* has been answered.
RunOutcomes(run) ==
    IF run.failed # NoResult
    THEN {run.failed}
    ELSE { EngineResult(out) : out \in
             { o \in CallOutcomes(run.backend) :
                 o = "ok" => \A c \in 1..Len(run.calls) :
                                run.calls[c].state # "executing" } }
         \cup { [outcome |-> "ToolError", message |-> run.calls[c].message] :
                  c \in { d \in 1..Len(run.calls) :
                            run.calls[d].state = "rejected" } }

\* What is left of a run when it has ended: its bridge invocations are gone.
Ended(run) == [run EXCEPT !.calls = << >>]
Invoked(run) == Cardinality({ c \in 1..Len(run.calls) : run.calls[c].invoked > 0 })

\* The future of one pending backend agent run settles, and with it the
\* future Agent.run returned.
RunSettle(a, i) ==
    /\ i \in 1..Len(runPending[a])
    /\ \E result \in RunOutcomes(runPending[a][i]) :
         LET entry == runPending[a][i]
             f == Forward(entry.issued, result)
             rec == [Op("runSettle", agents[a].provider, a) EXCEPT
                        !.outcome = f.outcome, !.message = f.message,
                        !.engine = result]
         IN  IF f.settled
             THEN /\ last' = [rec EXCEPT !.issued = entry.issued,
                                         !.invoked = Invoked(entry),
                                         !.run = Ended(entry)]
                  /\ runPending' = [runPending EXCEPT ![a] = Remove(@, i)]
             ELSE /\ last' = [rec EXCEPT !.issued = entry.issued + 1,
                                         !.call = entry.method,
                                         !.run = entry]
                  /\ runPending' = [runPending EXCEPT ![a][i] =
                        [RunEntry(entry.backend, entry.method, entry.handle,
                                  agents[a].tools) EXCEPT
                            !.issued = entry.issued + 1]]
    /\ UNCHANGED << napiMod, wasmMod, _backend, detectCalls, provs,
                    agents, genPending, destroyLog, everSelected, firstSelected,
                    overridden, opCount >>

Next ==
    \/ GetBackend
    \/ \E m \in Mocks : SetBackend(m)
    \/ \E p \in Providers : CreateProvider(p)
    \/ \E p \in Providers, h \in Handles : NewProvider(p, h)
    \/ \E p \in Providers : Destroy(p)
    \/ \E p \in Providers : Generate(p)
    \/ \E p \in Providers, i \in 1..MaxOps : GenerateSettle(p, i)
    \/ \E a \in Agents, p \in Providers, tools \in ToolTables : CreateAgent(a, p, tools)
    \/ \E a \in Agents : Run(a)
    \/ \E a \in Agents, i \in 1..MaxOps : RunSettle(a, i)

Spec == Init /\ [][Next]_vars

\* One table at module level, to which every run() adds its entries: a name
\* resolves to the entry of the agent that wrote it last.
BridgeCall_Shared(run, tool, args) ==
    LET has(a) == DOMAIN executorMap(agents[a].tools)
        shared == [n \in UNION { has(a) : a \in DOMAIN agents } |->
                     LET a == CHOOSE b \in DOMAIN agents :
                                 /\ n \in has(b)
                                 /\ \A d \in DOMAIN agents : n \in has(d) => d <= b
                     IN  executorMap(agents[a].tools)[n]]
        r == toolExecutor(shared, CallJson(tool, args))
    IN  [tool |-> tool, args |-> args, step |-> run.step,
         state |-> r.state, entry |-> r.entry, passed |-> r.passed,
         invoked |-> IF r.entry = 0 THEN 0 ELSE 1,
         result |-> r.result, message |-> r.message]

\* --------------------------------------------------- the engine and the bridge
\* The native engine, running one agent run, calls the toolExecutor it was
\* handed with a tool-call envelope.  The bridge parses it and looks the name
\* up; on a hit the host implementation is invoked and the invocation waits
\* for it; on a rejection at once the engine stops the run on that error.
BridgeCall(run, tool, args) ==
    LET r == toolExecutor(run.map, CallJson(tool, args))
    IN  [tool |-> tool, args |-> args, step |-> run.step,
         state |-> r.state, entry |-> r.entry, passed |-> r.passed,
         invoked |-> IF r.entry = 0 THEN 0 ELSE 1,
         result |-> r.result, message |-> r.message]

EngineToolCall(a, i, tool, args) ==
    /\ i \in 1..Len(runPending[a])
    /\ LET run == runPending[a][i]
           call == BridgeCall(run, tool, args)
           after == [run EXCEPT
                       !.calls = Append(@, call),
                       !.map = mapAfterCall(@, CallJson(tool, args)),
                       !.failed = IF call.state = "rejected"
                                  THEN [outcome |-> "UnresolvedTool",
                                        message |-> call.message]
                                  ELSE @]
       IN  /\ run.native.executor
           /\ ~Incompatible(run.backend)
           /\ run.failed = NoResult
           /\ Len(run.calls) < MaxCalls
           /\ runPending' = [runPending EXCEPT ![a][i] = after]
           /\ last' = [Op("toolCall", agents[a].provider, a) EXCEPT
                         !.outcome = call.state, !.message = call.message,
                         !.run = after]
    /\ UNCHANGED << napiMod, wasmMod, _backend, detectCalls, provs,
                    agents, genPending, destroyLog, everSelected, firstSelected,
                    overridden, opCount >>

\* The host implementation invoked for bridge invocation c settles: it
\* resolves, or it fails by rejecting or by throwing.
HostSettle(a, i, c, out) ==
    /\ i \in 1..Len(runPending[a])
    /\ c \in 1..Len(runPending[a][i].calls)
    /\ runPending[a][i].calls[c].state = "executing"
    /\ runPending[a][i].calls[c].invoked > 0
    /\ LET run == runPending[a][i]
           s == bridgeSettle(run.calls, c, out)
           after == [run EXCEPT !.calls[c].state = s.state,
                                !.calls[c].result = s.result,
                                !.calls[c].message = s.message]
       IN  /\ runPending' = [runPending EXCEPT ![a][i] = after]
           /\ last' = [Op("hostSettle", agents[a].provider, a) EXCEPT
                         !.outcome = out, !.message = s.message,
                         !.callHandle = c, !.run = after]
    /\ UNCHANGED << napiMod, wasmMod, _backend, detectCalls, provs,
                    agents, genPending, destroyLog, everSelected, firstSelected,
                    overridden, opCount >>

\* The engine begins its next step: every tool call of the current step has
\* been answered and the run has not failed.
EngineNextStep(a, i) ==
    /\ i \in 1..Len(runPending[a])
    /\ LET run == runPending[a][i]
           after == [run EXCEPT !.step = @ + 1]
       IN  /\ ~Incompatible(run.backend)
           /\ run.failed = NoResult
           /\ run.step < MaxSteps
           /\ \A c \in 1..Len(run.calls) : run.calls[c].state # "executing"
           /\ runPending' = [runPending EXCEPT ![a][i] = after]
           /\ last' = [Op("nextStep", agents[a].provider, a) EXCEPT
                         !.outcome = "ok", !.run = after]
    /\ UNCHANGED << napiMod, wasmMod, _backend, detectCalls, provs,
                    agents, genPending, destroyLog, everSelected, firstSelected,
                    overridden, opCount >>

\* The tool lists one mutation away from a list: an entry pushed, the last
\* entry popped, or one entry replaced.
Mutations(tools) ==
    { t \in ToolTables :
        \/ /\ Len(t) = Len(tools) + 1
           /\ \A j \in 1..Len(tools) : t[j] = tools[j]
        \/ /\ Len(t) = Len(tools) - 1
           /\ \A j \in 1..Len(t) : t[j] = tools[j]
        \/ /\ Len(t) = Len(tools)
           /\ Cardinality({ j \in 1..Len(t) : t[j] # tools[j] }) = 1 }

\* The runs in flight read the agent's list whenever they need it.
MutateTools_Live(a, tools) ==
    /\ opCount < MaxOps
    /\ agents[a].exists
    /\ tools \in Mutations(agents[a].tools)
    /\ agents' = [agents EXCEPT ![a].tools = tools]
    /\ runPending' = [runPending EXCEPT ![a] =
          [i \in 1..Len(runPending[a]) |->
             [runPending[a][i] EXCEPT
                 !.schemas = toolSchemas(tools),
                 !.map = IF runPending[a][i].method = "agentRunWithToolExecutor"
                         THEN executorMap(tools) ELSE << >>]]]
    /\ last' = [Op("mutateTools", agents[a].provider, a) EXCEPT !.outcome = "ok"]
    /\ opCount' = opCount + 1
    /\ UNCHANGED << napiMod, wasmMod, _backend, detectCalls, provs,
                    genPending, destroyLog, everSelected, firstSelected,
                    overridden >>

\* The host mutates the tool list it gave the agent: the constructor stored
\* the caller's options object, not a copy.
MutateTools(a, tools) ==
    /\ opCount < MaxOps
    /\ agents[a].exists
    /\ tools \in Mutations(agents[a].tools)
    /\ agents' = [agents EXCEPT ![a].tools = tools]
    /\ last' = [Op("mutateTools", agents[a].provider, a) EXCEPT !.outcome = "ok"]
    /\ opCount' = opCount + 1
    /\ UNCHANGED << napiMod, wasmMod, _backend, detectCalls, provs,
                    genPending, runPending, destroyLog, everSelected,
                    firstSelected, overridden >>

\* One agent over one live provider, the backend already selected from the
\* modules installed, and one operation left to the host: the state after
\* getBackend(), createProvider() and createAgent() with any tool table.
InitBridge ==
    /\ napiMod \in {"ok", "missing"}
    /\ wasmMod = "ok"
    /\ _backend = IF require(napiMod) THEN createNapiBackend(1)
                                      ELSE createWasmBackend(1)
    /\ detectCalls = 1
    /\ provs = [p \in Providers |->
                  [exists |-> TRUE, handle |-> 1, destroyed |-> FALSE]]
    /\ \E tools \in ToolTables :
         agents = [a \in Agents |->
                    [exists |-> TRUE, provider |-> 1, tools |-> tools]]
    /\ genPending = [p \in Providers |-> << >>]
    /\ runPending = [a \in Agents |-> << >>]
    /\ destroyLog = [p \in Providers |-> << >>]
    /\ everSelected = TRUE
    /\ firstSelected = _backend
    /\ overridden = FALSE
    /\ opCount = MaxOps - 1
    /\ last = [NoOp EXCEPT !.op = "createAgent", !.p = 1, !.a = 1,
                           !.outcome = "ok", !.backendBefore = _backend,
                           !.selectedBefore = TRUE]

NextBridge ==
    \/ \E a \in Agents : Run(a)
    \/ \E a \in Agents, i \in 1..MaxOps, tool \in ToolNames, args \in ToolArgs :
          EngineToolCall(a, i, tool, args)
    \/ \E a \in Agents, i \in 1..MaxOps, c \in 1..MaxCalls,
          out \in HostOutcomes : HostSettle(a, i, c, out)
    \/ \E a \in Agents, i \in 1..MaxOps : EngineNextStep(a, i)
    \/ \E a \in Agents, i \in 1..MaxOps : RunSettle(a, i)

SpecBridge == InitBridge /\ [][NextBridge]_vars

\* The bridge during one step of the engine, with the scheduling of the host:
\* a host implementation that was invoked settles, and the continuation of
\* the await runs when it has.
HostSettles(a, i, c) == \E out \in HostOutcomes : HostSettle(a, i, c, out)

AnyHostSettles ==
    \E a \in Agents, i \in 1..MaxOps, c \in 1..(MaxCalls + 1) : HostSettles(a, i, c)

NextBridgeStep ==
    \/ \E a \in Agents : Run(a)
    \/ \E a \in Agents, i \in 1..MaxOps, tool \in ToolNames, args \in ToolArgs :
          EngineToolCall(a, i, tool, args)
    \/ AnyHostSettles
    \/ \E a \in Agents, i \in 1..MaxOps : RunSettle(a, i)

SpecBridgeFair ==
    InitBridge /\ [][NextBridgeStep]_vars /\ WF_vars(AnyHostSettles)

\* ------------------------------------------------------ the selection alone
\* The selection the record of an operation reports, if the operation
\* executed detectBackend().
Selection(rec) ==
    IF rec.resolved /\ Len(rec.probes) > 0
    THEN [outcome |-> rec.outcome, kind |-> rec.ret.kind, message |-> rec.message]
    ELSE NoSelection

\* Another process starts in the same environment and calls getBackend():
\* its _backend is null, so detectBackend() is executed.  What it memoizes
\* is its own.
Select ==
    /\ opCount < MaxOps
    /\ LET res == detectBackend
           rec == [Op("select", 0, 0) EXCEPT !.before = Selection(last)]
       IN  last' = IF res.ok
                   THEN [Resolved(rec, res) EXCEPT !.outcome = "ok"]
                   ELSE NoBackend(rec, res)
    /\ detectCalls' = detectCalls + 1
    /\ opCount' = opCount + 1
    /\ UNCHANGED << napiMod, wasmMod, _backend, provs, agents, genPending,
                    runPending, destroyLog, everSelected, firstSelected,
                    overridden >>

NextSelect ==
    \/ Select
    \/ GetBackend
    \/ \E m \in Mocks : SetBackend(m)

SpecSelect == Init /\ [][NextSelect]_vars

\* One run of an agent whose tool list the host mutates once, before the
\* run or while it is in flight.
InitMutate ==
    /\ napiMod \in {"ok", "missing"}
    /\ wasmMod = "ok"
    /\ _backend = IF require(napiMod) THEN createNapiBackend(1)
                                      ELSE createWasmBackend(1)
    /\ detectCalls = 1
    /\ provs = [p \in Providers |->
                  [exists |-> TRUE, handle |-> 1, destroyed |-> FALSE]]
    /\ \E tools \in ToolTables :
         agents = [a \in Agents |->
                    [exists |-> TRUE, provider |-> 1, tools |-> tools]]
    /\ genPending = [p \in Providers |-> << >>]
    /\ runPending = [a \in Agents |-> << >>]
    /\ destroyLog = [p \in Providers |-> << >>]
    /\ everSelected = TRUE
    /\ firstSelected = _backend
    /\ overridden = FALSE
    /\ opCount = MaxOps - 2
    /\ last = [NoOp EXCEPT !.op = "createAgent", !.p = 1, !.a = 1,
                           !.outcome = "ok", !.backendBefore = _backend,
                           !.selectedBefore = TRUE]

\* The host invokes run() while no run of the agent is in flight.
RunOnce(a) == runPending[a] = << >> /\ Run(a)

NextMutate ==
    \/ \E a \in Agents : RunOnce(a)
    \/ \E a \in Agents, tools \in ToolTables : MutateTools(a, tools)
    \/ \E a \in Agents, i \in 1..MaxOps, tool \in ToolNames, args \in ToolArgs :
          EngineToolCall(a, i, tool, args)
    \/ \E a \in Agents, i \in 1..MaxOps : RunSettle(a, i)

SpecMutate == InitMutate /\ [][NextMutate]_vars

\* The facades, with the scheduling of the engine: the future of a backend
\* agent run that is pending settles.
AnyRunSettles == \E a \in Agents, i \in 1..MaxOps : RunSettle(a, i)

\* The WASM module is installed, so that a backend is always selected.
InitFair == Init /\ wasmMod = "ok"

SpecFair == InitFair /\ [][Next]_vars /\ WF_vars(AnyRunSettles)

\* ------------------------------------------------------- overlapping runs
\* Two agents over one live provider under the NAPI backend, every tool of
\* their tables carrying an implementation, and two run() calls left to the
\* host.
OverlapAgents == {1, 2}
OverlapTables ==
    { t \in ToolTables :
        /\ Len(t) >= 1
        /\ \A j \in 1..Len(t) : t[j].execute = "function" }

InitOverlap ==
    /\ napiMod = "ok"
    /\ wasmMod = "ok"
    /\ _backend = createNapiBackend(1)
    /\ detectCalls = 1
    /\ provs = [p \in Providers |->
                  [exists |-> TRUE, handle |-> 1, destroyed |-> FALSE]]
    /\ \E t1 \in OverlapTables, t2 \in OverlapTables :
         agents = [a \in OverlapAgents |->
                    [exists |-> TRUE, provider |-> 1,
                     tools |-> IF a = 1 THEN t1 ELSE t2]]
    /\ genPending = [p \in Providers |-> << >>]
    /\ runPending = [a \in OverlapAgents |-> << >>]
    /\ destroyLog = [p \in Providers |-> << >>]
    /\ everSelected = TRUE
    /\ firstSelected = _backend
    /\ overridden = FALSE
    /\ opCount = MaxOps - 2
    /\ last = [NoOp EXCEPT !.op = "createAgent", !.p = 1, !.a = 2,
                           !.outcome = "ok", !.backendBefore = _backend,
                           !.selectedBefore = TRUE]

NextOverlap ==
    \/ \E a \in OverlapAgents : Run(a)
    \/ \E a \in OverlapAgents, i \in 1..MaxOps, tool \in ToolNames :
          EngineToolCall(a, i, tool, "x")
    \/ \E a \in OverlapAgents, i \in 1..MaxOps : RunSettle(a, i)

SpecOverlap == InitOverlap /\ [][NextOverlap]_vars

\* ------------------------------------------------------ the adapters alone
\* A backend method is called with some combination of optional fields and
\* some tool schemas; the adapter computes what it passes to its module.
Marshal(kind, method) ==
    /\ opCount < MaxOps
    /\ opCount' = opCount + 1
    /\ \E options \in [OptionKeys(method) -> OptionalValues],
          tools \in IF TakesTools(method) THEN SchemaTables ELSE {<< >>} :
         last' = [Op("marshal", 0, 0) EXCEPT
                    !.call = method,
                    !.request = [kind |-> kind, method |-> method,
                                 options |-> options, tools |-> tools],
                    !.wire = BackendCall(kind, method, options, tools)]
    /\ UNCHANGED << napiMod, wasmMod, _backend, detectCalls, provs, agents,
                    genPending, runPending, destroyLog, everSelected,
                    firstSelected, overridden >>

\* toolExecutor after the await, on what the implementation resolved to:
\* return JSON.stringify(result) resolves the invocation with that value.
ToolResult ==
    /\ opCount < MaxOps
    /\ opCount' = opCount + 1
    /\ \E value \in ResolvedValues :
         last' = [Op("toolResult", 0, 0) EXCEPT
                    !.outcome = "resolve",
                    !.value = value,
                    !.answer = JsonStringifyResult(value)]
    /\ UNCHANGED << napiMod, wasmMod, _backend, detectCalls, provs, agents,
                    genPending, runPending, destroyLog, everSelected,
                    firstSelected, overridden >>

\* generateWithTools of the WASM backend is called with some optional fields
\* and some tool schemas, and the module answers its generate.
GenerateWithTools ==
    /\ opCount < MaxOps
    /\ opCount' = opCount + 1
    /\ \E options \in [GenerateKeys -> OptionalValues],
          tools \in SchemaTables, reply \in ModuleReplies :
         LET g == wasmGenerateWithTools(options, tools, reply)
         IN  last' = [Op("generateWithTools", 0, 0) EXCEPT
                        !.call = "generateWithTools",
                        !.outcome = g.outcome,
                        !.message = g.message,
                        !.request = [kind |-> "wasm",
                                     method |-> "generateWithTools",
                                     options |-> options, tools |-> tools],
                        !.reply = reply,
                        !.generated = g]
    /\ UNCHANGED << napiMod, wasmMod, _backend, detectCalls, provs, agents,
                    genPending, runPending, destroyLog, everSelected,
                    firstSelected, overridden >>

\* run() of an agent with some tool table and options, under one of the
\* backends: what run() hands to the backend method and what the adapter
\* passes on to its module.
RunArguments(kind) ==
    /\ opCount < MaxOps
    /\ opCount' = opCount + 1
    /\ \E options \in UniformOptions, tools \in FullToolTables :
         LET handed == runArguments(options, tools)
             native == NativeCall([kind |-> kind, id |-> 1], handed.method,
                                  toolSchemas(tools))
         IN  last' = [Op("runArguments", 0, 0) EXCEPT
                        !.call = handed.method,
                        !.outcome = "pending",
                        !.hasExec = native.executor,
                        !.request = [kind |-> kind, method |-> handed.method,
                                     options |-> options, tools |-> tools],
                        !.handed = handed,
                        !.wire = BackendCall(kind, handed.method, options,
                                             handed.tools)]
    /\ UNCHANGED << napiMod, wasmMod, _backend, detectCalls, provs, agents,
                    genPending, runPending, destroyLog, everSelected,
                    firstSelected, overridden >>

\* Both modules installed, nothing created yet, one call left to make.
InitMarshal ==
    /\ napiMod = "ok"
    /\ wasmMod = "ok"
    /\ _backend = None
    /\ detectCalls = 0
    /\ provs = [p \in Providers |-> NoProvider]
    /\ agents = [a \in Agents |-> NoAgent]
    /\ genPending = [p \in Providers |-> << >>]
    /\ runPending = [a \in Agents |-> << >>]
    /\ destroyLog = [p \in Providers |-> << >>]
    /\ everSelected = FALSE
    /\ firstSelected = None
    /\ overridden = FALSE
    /\ opCount = MaxOps - 1
    /\ last = NoOp

NextMarshal ==
    \/ \E kind \in {"napi", "wasm"}, method \in Methods : Marshal(kind, method)
    \/ ToolResult
    \/ GenerateWithTools
    \/ \E kind \in {"napi", "wasm"} : RunArguments(kind)

SpecMarshal == InitMarshal /\ [][NextMarshal]_vars

\* ------------------------------------------------------------------- claims
\* An operation that executed detectBackend(): it called getBackend() while
\* _backend was null.
Probed == last.resolved /\ Len(last.probes) > 0

\* The tools of the table of agent a that carry a host implementation.
Implemented(a) ==
    { i \in 1..Len(agents[a].tools) : agents[a].tools[i].execute = "function" }

\* C1 (as stated): over any sequence of destroy() calls on one facade,
\* backend.destroyProvider is invoked for its handle by no destroy() later
\* than the first.
C1_OnlyFirstDestroyReleases ==
    \A p \in Providers : \A i \in 1..Len(destroyLog[p]) :
        destroyLog[p][i].called => i = 1

\* C2 (as stated): every destroy() after the first on a facade returns
\* normally, whatever the backend does.
C2_RepeatedDestroyNeverRaises ==
    \A p \in Providers : \A i \in 2..Len(destroyLog[p]) :
        destroyLog[p][i].outcome = "ok"

\* C3 (as stated): a generate() invoked after any destroy() on the same facade
\* fails with 'Provider has been destroyed' and issues no backend.generate.
C3_GenerateAfterDestroyFails ==
    (last.op = "generate" /\ last.destroysBefore > 0)
        => /\ last.outcome = "UseAfterDestroy"
           /\ last.message = DestroyedMessage
           /\ last.call = "none"

\* C4: a run() invoked on an agent whose provider facade is destroyed rejects
\* with 'Provider has been destroyed', in Mode A and in Mode B, and calls
\* neither backend.agentRun nor backend.agentRunWithToolExecutor.
C4_RunAfterDestroyRejects ==
    (last.op = "run" /\ last.destroyedBefore)
        => /\ last.outcome = "UseAfterDestroy"
           /\ last.message = DestroyedMessage
           /\ last.call = "none"

C4_Witness ==
    /\ last.op = "run"
    /\ last.destroyedBefore
    /\ Implemented(last.a) # {}
    /\ Cardinality(Implemented(last.a)) < Len(agents[last.a].tools)
    /\ last.outcome = "UseAfterDestroy"

\* C5: detection probes the candidates in priority order: NAPI first, WASM
\* only after NAPI and only when NAPI failed; a viable NAPI candidate is the
\* one selected and memoized.
C5_PriorityOrder ==
    Probed
        => /\ last.probes[1] = NapiModule
           /\ Names(last.probes, WasmModule)
                => (last.probes = << NapiModule, WasmModule >> /\ napiMod # "ok")
           /\ napiMod = "ok"
                => (last.ret.kind = "napi" /\ _backend = last.ret)

C5_Witness ==
    /\ Probed
    /\ last.probes = << NapiModule, WasmModule >>
    /\ last.ret.kind = "wasm"
    /\ wasmMod = "ok"

\* C6 (as stated): when every candidate fails (cannot be loaded or is
\* incompatible), selection raises an error naming both modules and returns
\* no backend.
C6_AllFailRaisesNamingBoth ==
    (Probed /\ napiMod # "ok" /\ wasmMod # "ok")
        => /\ last.ret = None
           /\ _backend = None
           /\ Names(last.message, NapiModule)
           /\ Names(last.message, WasmModule)

\* C7 (as stated): once getBackend() has succeeded, every later getBackend()
\* returns the object the first success returned and probes nothing.
C7_SameObjectForever ==
    (last.resolved /\ last.selectedBefore)
        => (last.ret = firstSelected /\ last.probes = << >>)

\* C7 (amended): once getBackend() has succeeded, every later getBackend()
\* returns the memoized backend without probing: the object of the first
\* success unless setBackend replaced it in between, and then the backend
\* setBackend installed.
C7_MemoizedAndReused ==
    (last.resolved /\ last.selectedBefore)
        => /\ last.probes = << >>
           /\ last.ret # None
           /\ last.ret = last.backendBefore
           /\ _backend = last.ret
           /\ ~overridden => last.ret = firstSelected

C7_Witness ==
    /\ last.op = "getBackend"
    /\ last.selectedBefore
    /\ ~overridden
    /\ last.ret = firstSelected
    /\ firstSelected.kind \in {"napi", "wasm"}

\* C8 (as stated): once a backend is active, no later operation changes which
\* backend getBackend() returns.
C8_SetAtMostOnce ==
    last.backendBefore # None => _backend = last.backendBefore

\* C8 (amended): setBackend is not confined to the time before
\* auto-detection: it replaces the memoized backend whenever it is called.
\* Auto-detection runs only while no backend is memoized, and once one is
\* active only setBackend changes which backend getBackend() returns.
C8_OnlySetBackendReplaces ==
    /\ (last.backendBefore # None /\ _backend # last.backendBefore)
            => last.op = "setBackend"
    /\ last.op = "setBackend" => _backend.kind = "mock"
    /\ Probed => last.backendBefore = None

C8_Witness ==
    /\ last.op = "setBackend"
    /\ last.backendBefore.kind = "napi"
    /\ _backend.kind = "mock"

\* C9 (as stated): a candidate that loads but is structurally incompatible
\* counts as failed: detection goes on to the next candidate and the
\* incompatible module is never memoized.
C9_IncompatibleCountsAsFailed ==
    /\ (Probed /\ napiMod = "incompatible") => Names(last.probes, WasmModule)
    /\ napiMod = "incompatible" => _backend.kind # "napi"
    /\ wasmMod = "incompatible" => _backend.kind # "wasm"

\* C10: a run() that reaches the backend delegates to
\* agentRunWithToolExecutor if and only if at least one tool of the table
\* carries an implementation, however many others lack one, and to agentRun
\* otherwise; one call is made for the whole run.
C10_ModeSelection ==
    (last.op = "run" /\ last.call # "none")
        => /\ last.call \in {"agentRun", "agentRunWithToolExecutor"}
           /\ last.call = "agentRunWithToolExecutor"
                <=> Cardinality(Implemented(last.a)) >= 1
           /\ last.call = "agentRun" <=> Implemented(last.a) = {}

C10_Witness ==
    /\ last.op = "run"
    /\ last.call = "agentRunWithToolExecutor"
    /\ Cardinality(Implemented(last.a)) = 1
    /\ Len(agents[last.a].tools) = 2

\* The bridge invocations of a run whose envelope names a tool for which the
\* agent's table holds no implementation.
Missed(a, run) ==
    { c \in 1..Len(run.calls) :
        \A i \in Implemented(a) : agents[a].tools[i].name # run.calls[c].tool }

\* C11: in Mode B, when the engine calls a tool without a host implementation
\* (an entry without execute, or a name absent from the table), the bridge
\* invocation rejects naming that tool, the run rejects with UnresolvedTool
\* naming it, and the engine makes no later call and begins no later step.
C11_MissFailsRun ==
    \A c \in Missed(last.a, last.run) :
        LET call == last.run.calls[c]
        IN  /\ call.state = "rejected"
            /\ call.message = UnresolvedMessage(call.tool)
            /\ call.invoked = 0
            /\ last.run.failed = [outcome |-> "UnresolvedTool",
                                  message |-> UnresolvedMessage(call.tool)]
            /\ c = Len(last.run.calls)
            /\ last.run.step = call.step

\* C11, when the run settles: a run the engine stopped on a miss rejects with
\* UnresolvedTool and the message naming the tool.
C11_MissRejectsRun ==
    (last.op = "runSettle" /\ last.run.failed.outcome = "UnresolvedTool") =>
        /\ last.outcome = "UnresolvedTool"
        /\ last.message = last.run.failed.message
        /\ \E tool \in ToolNames :
             /\ last.message = UnresolvedMessage(tool)
             /\ \A i \in Implemented(last.a) :
                  agents[last.a].tools[i].name # tool

C11_UnresolvedTool == C11_MissFailsRun /\ C11_MissRejectsRun

\* A Mode B run over a mixed table rejects on a call of the entry that has
\* no implementation.
C11_Witness ==
    /\ last.op = "runSettle"
    /\ last.outcome = "UnresolvedTool"
    /\ Implemented(last.a) # {}
    /\ \E i \in 1..Len(agents[last.a].tools) :
         /\ agents[last.a].tools[i].execute = "undefined"
         /\ last.message = UnresolvedMessage(agents[last.a].tools[i].name)

\* C12: under the WASM backend a run() of an agent whose tools carry
\* implementations is accepted, invokes no host implementation, and completes
\* whenever the engine's run completes.
C12_WasmDegradesToModeA ==
    (last.run.backend.kind = "wasm" /\ Implemented(last.a) # {}) =>
        /\ last.run.method = "agentRunWithToolExecutor"
        /\ last.run.failed = NoResult
        /\ ~last.run.native.executor
        /\ last.run.calls = << >>
        /\ last.op = "run" => last.outcome = "pending"
        /\ last.op = "runSettle" =>
              /\ last.invoked = 0
              /\ last.engine.outcome = "ok" => last.outcome = "ok"

C12_Witness ==
    /\ last.op = "runSettle"
    /\ last.run.backend.kind = "wasm"
    /\ Implemented(last.a) # {}
    /\ last.outcome = "ok"

\* C13: every bridge invocation that is answered is answered with the result
\* computed from its own tool and arguments, whatever the order in which the
\* host implementations of overlapping invocations complete.
C13_OwnResult ==
    \A c \in 1..Len(last.run.calls) :
        LET call == last.run.calls[c]
        IN  call.state = "resolved" =>
              \E i \in Implemented(last.a) :
                /\ agents[last.a].tools[i].name = call.tool
                /\ call.result = JsonStringify(HostValue(i, call.args))

\* Two invocations of one step overlap and the later one completes first.
C13_Witness ==
    /\ last.op = "hostSettle"
    /\ last.callHandle = 1
    /\ Len(last.run.calls) = 2
    /\ last.run.calls[1].state = "resolved"
    /\ last.run.calls[2].state = "resolved"
    /\ last.run.calls[1].step = last.run.calls[2].step
    /\ last.run.calls[1].args # last.run.calls[2].args

\* C14: an envelope naming a tool that has an implementation invokes the
\* implementation of an entry of exactly that name, once, with the arguments
\* of the envelope.
C14_NamedToolInvokedOnce ==
    \A c \in 1..Len(last.run.calls) :
        LET call == last.run.calls[c]
            tools == agents[last.a].tools
        IN  c \notin Missed(last.a, last.run) =>
              /\ call.entry \in Implemented(last.a)
              /\ tools[call.entry].name = call.tool
              /\ call.invoked = 1
              /\ call.passed = call.args

\* The table holds implementations of both names and the second is called.
C14_Witness ==
    /\ last.op = "toolCall"
    /\ Len(agents[last.a].tools) = 2
    /\ Implemented(last.a) = {1, 2}
    /\ agents[last.a].tools[1].name # agents[last.a].tools[2].name
    /\ last.run.calls[Len(last.run.calls)].entry = 2

\* C15: when a host implementation fails, by throwing or by rejecting, its
\* bridge invocation rejects with that same error: no result is substituted
\* and the implementation is not invoked again.
C15_HostErrorPropagates ==
    /\ \A c \in 1..Len(last.run.calls) :
         LET call == last.run.calls[c]
         IN  (call.state = "rejected" /\ call.entry # 0) =>
               /\ call.message = HostMessage(call.entry, call.passed)
               /\ call.result = << >>
               /\ call.invoked = 1
    /\ (last.op = "hostSettle" /\ last.outcome # "resolve") =>
         LET call == last.run.calls[last.callHandle]
         IN  /\ call.state = "rejected"
             /\ call.message = HostMessage(call.entry, call.passed)
             /\ last.message = call.message
             /\ call.invoked = 1

C15_Witness ==
    /\ last.op = "hostSettle"
    /\ last.outcome = "throw"
    /\ last.run.calls[last.callHandle].state = "rejected"

\* C16: every generate() and run() issues at most one backend call, and when
\* that call fails the operation rejects with the engine's failure unchanged.
C16_FacadeForwardsOnce ==
    /\ \A p \in Providers : \A i \in 1..Len(genPending[p]) :
         genPending[p][i].issued = 1
    /\ \A a \in Agents : \A i \in 1..Len(runPending[a]) :
         runPending[a][i].issued = 1
    /\ last.op \in {"generate", "run"} => last.issued <= 1
    /\ last.op \in {"generateSettle", "runSettle"} =>
         /\ last.issued = 1
         /\ last.call = "none"
         /\ last.outcome # "pending"
         /\ last.engine.outcome # "ok" =>
              /\ last.outcome = last.engine.outcome
              /\ last.message = last.engine.message

C16_Witness ==
    /\ last.op \in {"generateSettle", "runSettle"}
    /\ last.engine.outcome = "EngineError"
    /\ last.outcome = "EngineError"

\* C17: a run() of an agent none of whose tools carries an implementation
\* makes exactly one backend.agentRun call, registers no bridge, invokes no
\* host function, and settles as the backend's call settles.
C17_ModeADelegates ==
    (last.op \in {"run", "runSettle", "toolCall", "hostSettle"}
        /\ Implemented(last.a) = {} /\ last.run.method # "none") =>
        /\ last.run.method = "agentRun"
        /\ last.run.issued = 1
        /\ last.run.map = << >>
        /\ ~last.run.native.executor
        /\ last.run.calls = << >>
        /\ last.op = "run" => last.call = "agentRun" /\ Len(runPending[last.a]) = 1
        /\ last.op = "runSettle" =>
             /\ last.invoked = 0
             /\ last.outcome = last.engine.outcome
             /\ last.message = last.engine.message

C17_Witness ==
    /\ last.op = "runSettle"
    /\ Implemented(last.a) = {}
    /\ Len(agents[last.a].tools) > 0
    /\ last.run.method = "agentRun"
    /\ last.outcome = "ok"

\* A field does not reach the module: it is not in what is passed, or it is
\* passed as undefined.  A sentinel stands for it: it is passed as null.
Omitted(fields, k) == k \notin DOMAIN fields \/ fields[k] = Undefined
Sentinel(fields, k) == k \in DOMAIN fields /\ fields[k] = Null

\* C18 (as stated): under the NAPI backend every absent optional field is
\* omitted from what is passed to the native module.
C18_NapiOmitsAbsent ==
    (last.op = "marshal" /\ last.request.kind = "napi") =>
        /\ \A k \in OptionKeys(last.request.method) :
             last.request.options[k] = Undefined => Omitted(last.wire.fields, k)
        /\ \A i \in 1..Len(last.request.tools) :
             last.request.tools[i].parameters = Undefined =>
                Omitted(last.wire.tools[i], "parameters")

\* C18 (amended): under the NAPI backend every optional field is passed to the
\* native module, as null when the caller left it out and with its value
\* otherwise, for every combination of present and absent fields.
C18_NapiNullsAbsent ==
    (last.op = "marshal" /\ last.request.kind = "napi") =>
        /\ \A k \in OptionKeys(last.request.method) :
             IF last.request.options[k] = Undefined
             THEN Sentinel(last.wire.fields, k)
             ELSE /\ k \in DOMAIN last.wire.fields
                  /\ last.wire.fields[k] = last.request.options[k]
        /\ TakesTools(last.request.method) =>
             /\ Len(last.wire.tools) = Len(last.request.tools)
             /\ \A i \in 1..Len(last.request.tools) :
                  IF last.request.tools[i].parameters = Undefined
                  THEN Sentinel(last.wire.tools[i], "parameters")
                  ELSE last.wire.tools[i].parameters =
                          last.request.tools[i].parameters

\* Some agent options are set and some are not, and a tool has no parameters.
C18_Witness ==
    /\ last.op = "marshal"
    /\ last.request.kind = "napi"
    /\ last.request.method = "agentRun"
    /\ last.request.options["seed"] = Undefined
    /\ last.request.options["maxSteps"] = Value
    /\ \E i \in 1..Len(last.request.tools) :
         last.request.tools[i].parameters = Undefined

C20_SchemasReachEngine ==
    (last.op = "run" /\ last.call # "none") =>
        last.run.native.tools = toolSchemas(agents[last.a].tools)

\* Bridge invocation c of the i-th pending run of agent a is waiting.
Executing(a, i, c) ==
    /\ i \in 1..Len(runPending[a])
    /\ c \in 1..Len(runPending[a][i].calls)
    /\ runPending[a][i].calls[c].state = "executing"

\* C21, its safety half: an invocation that waits, waits for a host
\* implementation that was invoked; one naming a tool without implementation
\* never waits.
C21_WaitsOnlyForHost ==
    \A a \in Agents : \A i \in 1..Len(runPending[a]) :
        \A c \in 1..Len(runPending[a][i].calls) :
            LET call == runPending[a][i].calls[c]
            IN  /\ call.state = "executing" => call.invoked > 0
                /\ c \in Missed(a, runPending[a][i]) =>
                     call.state = "rejected" /\ call.invoked = 0

\* C21: every tool-call envelope handed to the bridge settles, provided the
\* host implementation invoked for it settles; an envelope naming a tool
\* without an implementation is rejected without waiting for any.
C21_BridgeNeverStalls ==
    /\ []C21_WaitsOnlyForHost
    /\ <>[](\A a \in Agents : \A i \in 1..Len(runPending[a]) :
              \A c \in 1..Len(runPending[a][i].calls) : ~Executing(a, i, c))

\* An invocation that waited is answered after another one of the run missed.
C21_Witness ==
    /\ last.op = "hostSettle"
    /\ Missed(last.a, last.run) # {}
    /\ last.run.calls[last.callHandle].state # "executing"

\* C22, its safety half: the only step that takes a run out of flight is the
\* settlement of its own future, which takes out that one run.
C22_OnlySettleEnds ==
    \A a \in Agents :
        Len(runPending'[a]) < Len(runPending[a]) =>
            /\ last'.op = "runSettle"
            /\ last'.a = a
            /\ last'.outcome # "pending"
            /\ Len(runPending'[a]) = Len(runPending[a]) - 1

\* C22: provided the engine's future settles, every run() that was invoked
\* settles, once, and no operation of the host takes it out of flight.
C22_RunSettlesOnce ==
    /\ [][C22_OnlySettleEnds]_vars
    /\ <>[](\A a \in Agents : runPending[a] = << >>)

\* A run settles after its provider was destroyed while it was in flight.
C22_Witness ==
    /\ last.op = "runSettle"
    /\ last.outcome = "ok"
    /\ provs[last.p].destroyed

\* C23: the mode, the schemas handed to the engine and the table the bridge
\* looks names up in are those of the tool list as it was when run() was
\* invoked, whatever the host has done to the list since.
C23_TableReadOnceAtCall ==
    \A a \in Agents : \A i \in 1..Len(runPending[a]) :
        LET run == runPending[a][i]
            modeB == \E j \in 1..Len(run.table) : run.table[j].execute = "function"
        IN  /\ run.method = IF modeB THEN "agentRunWithToolExecutor" ELSE "agentRun"
            /\ run.schemas = toolSchemas(run.table)
            /\ run.map = IF modeB THEN executorMap(run.table) ELSE << >>
            /\ \A c \in 1..Len(run.calls) :
                 run.calls[c].entry =
                    IF run.calls[c].tool \in DOMAIN executorMap(run.table)
                    THEN executorMap(run.table)[run.calls[c].tool]
                    ELSE 0

\* A call made after the list was mutated finds the implementation the list
\* held when run() was invoked and holds no more.
C23_Witness ==
    /\ last.op = "toolCall"
    /\ agents[last.a].tools # last.run.table
    /\ last.run.calls[Len(last.run.calls)].entry # 0
    /\ last.run.calls[Len(last.run.calls)].tool
          \notin DOMAIN executorMap(agents[last.a].tools)

C25_AnsweredOnResolution ==
    \A a \in Agents :
        Len(runPending'[a]) = Len(runPending[a]) =>
            \A i \in 1..Len(runPending[a]) :
                LET old == runPending[a][i].calls
                    new == runPending'[a][i].calls
                IN  \A c \in 1..Len(new) :
                        ( /\ new[c].state = "resolved"
                          /\ (c > Len(old) \/ old[c].state # "resolved") ) =>
                            /\ c <= Len(old)
                            /\ old[c].state = "executing"
                            /\ old[c].invoked = 1
                            /\ last'.op = "hostSettle"
                            /\ last'.outcome = "resolve"
                            /\ last'.callHandle = c
                            /\ new[c].result =
                                 JsonStringify(HostValue(old[c].entry, old[c].passed))

C25_NoStepOnWaitingCall ==
    \A a \in Agents : \A i \in 1..Len(runPending[a]) :
        \A c \in 1..Len(runPending[a][i].calls) :
            runPending[a][i].calls[c].step < runPending[a][i].step =>
                runPending[a][i].calls[c].state # "executing"

C25_ResultAfterResolution ==
    [][C25_AnsweredOnResolution]_vars /\ []C25_NoStepOnWaitingCall

\* The engine has begun a later step after a call of the step before was
\* answered on the resolution of its implementation.
C25_Witness ==
    /\ last.op = "nextStep"
    /\ \E c \in 1..Len(last.run.calls) :
          /\ last.run.calls[c].state = "resolved"
          /\ last.run.calls[c].step < last.run.step

\* C26: a bridge invocation whose envelope names a tool with no entry in the
\* run's executor table rejects with an error whose message names that tool,
\* and invokes no implementation of any tool.
C26_MissInvokesNothing ==
    \A a \in Agents :
        Len(runPending'[a]) = Len(runPending[a]) =>
            \A i \in 1..Len(runPending[a]) :
                LET old == runPending[a][i]
                    new == runPending'[a][i]
                    call == new.calls[Len(new.calls)]
                IN  ( /\ Len(new.calls) = Len(old.calls) + 1
                      /\ call.tool \notin DOMAIN old.map ) =>
                        /\ call.state = "rejected"
                        /\ call.entry = 0
                        /\ call.message = UnresolvedMessage(call.tool)
                        /\ call.message[Len(call.message)] = call.tool
                        /\ Invoked(new) = Invoked(old)
                        /\ last'.op = "toolCall"
                        /\ last'.outcome = "rejected"
                        /\ last'.message = call.message

C26_MissRejectsNamingTool == [][C26_MissInvokesNothing]_vars

\* After a hit whose implementation was invoked, an envelope names a tool
\* that is in no entry of the agent's list, and its invocation rejects.
C26_Witness ==
    /\ last.op = "toolCall"
    /\ last.outcome = "rejected"
    /\ Len(last.run.calls) = 2
    /\ Invoked(last.run) = 1
    /\ \A j \in 1..Len(agents[last.a].tools) :
          agents[last.a].tools[j].name # last.run.calls[2].tool

\* C27 (as stated): whatever the implementation resolves to, undefined
\* included, the bridge invocation resolves with a text serializing it.
C27_TextForEveryValue ==
    last.op = "toolResult" => last.answer.string

\* C28: generateWithTools of the WASM backend never raises
\* CapabilityUnavailable; it makes one call of the module, its plain generate,
\* passing no tool schemas, and resolves to the generation the module
\* answered with toolCalls the empty list.
C28_WasmGenerateWithToolsDegrades ==
    last.op = "generateWithTools" =>
        LET g == last.generated
        IN  /\ g.outcome # "CapabilityUnavailable"
            /\ Len(g.calls) = 1
            /\ g.calls[1].fn = "generate"
            /\ g.calls[1].wire.tools = NoTools
            /\ g.calls[1].wire =
                 wasmCall("generate", last.request.options, << >>)
            /\ last.reply.outcome = "ok" =>
                 /\ g.outcome = "ok"
                 /\ g.result.text = last.reply.result.text
                 /\ g.result.toolCalls = << >>

\* Schemas were handed in and the module's generation carried tool calls of
\* its own.
C28_Witness ==
    /\ last.op = "generateWithTools"
    /\ Len(last.request.tools) > 0
    /\ last.reply.outcome = "ok"
    /\ last.reply.result.toolCalls # << >>
    /\ last.generated.result.toolCalls = << >>

\* C29: the name-to-implementation table of a run is the one run() built and
\* no later step changes it, so invocations naming the same tool find the
\* same entry however they interleave.
C29_TableUnchanged ==
    \A a \in Agents :
        Len(runPending'[a]) = Len(runPending[a]) =>
            \A i \in 1..Len(runPending[a]) :
                /\ runPending'[a][i].map = runPending[a][i].map
                /\ runPending'[a][i].map = executorMap(runPending[a][i].table)

C29_SameLookup ==
    \A a \in Agents : \A i \in 1..Len(runPending[a]) :
        LET run == runPending[a][i]
        IN  \A c, d \in 1..Len(run.calls) :
                run.calls[c].tool = run.calls[d].tool =>
                    /\ run.calls[c].entry = run.calls[d].entry
                    /\ run.calls[c].entry # 0 <=> run.calls[c].tool \in DOMAIN run.map

C29_TableReadOnlyAfterSetup == [][C29_TableUnchanged]_vars /\ []C29_SameLookup

\* A second invocation names the tool of a first one that is still waiting
\* for its implementation, and finds the same entry.
C29_Witness ==
    /\ last.op = "toolCall"
    /\ Len(last.run.calls) = 2
    /\ last.run.calls[1].tool = last.run.calls[2].tool
    /\ last.run.calls[1].state = "executing"
    /\ last.run.calls[2].state = "executing"
    /\ last.run.calls[2].entry = last.run.calls[1].entry

\* C30: a getBackend() that raises because every candidate failed leaves
\* _backend unset; the next getBackend() probes both candidates again, NAPI
\* first, and a setBackend() after the failure takes effect.
C30_FailureLeavesUnset ==
    /\ (last'.resolved /\ last'.outcome = "ConfigurationError") =>
          /\ _backend = None
          /\ _backend' = None
          /\ last'.probes = << NapiModule, WasmModule >>
    /\ (last.resolved /\ last.outcome = "ConfigurationError") =>
          /\ last'.resolved =>
                /\ last'.probes = << NapiModule, WasmModule >>
                /\ detectCalls' = detectCalls + 1
          /\ last'.op = "setBackend" =>
                /\ _backend' # None
                /\ _backend'.kind = "mock"

C30_FailedSelectionNotMemoized == [][C30_FailureLeavesUnset]_vars

\* Two selections failed, each probing both candidates, and an override
\* after them is the active backend.
C30_Witness ==
    /\ last.op = "setBackend"
    /\ detectCalls = 2
    /\ ~everSelected
    /\ _backend # None
    /\ _backend.kind = "mock"

\* The latest destroy() on facade p raised.
DestroyFailed(p) ==
    /\ Len(destroyLog[p]) > 0
    /\ destroyLog[p][Len(destroyLog[p])].outcome # "ok"

\* A destroy() that raised leaves the facade not destroyed, and the error is
\* what the caller gets: the backend's, or the selection's.
C31_FailedDestroyPropagates ==
    /\ \A p \in Providers : DestroyFailed(p) => ~provs[p].destroyed
    /\ (last.op = "destroy" /\ last.p \in Providers /\ DestroyFailed(last.p)) =>
          /\ last.outcome \in {"EngineError", "ConfigurationError"}
          /\ last.outcome = destroyLog[last.p][Len(destroyLog[last.p])].outcome
          /\ last.outcome = "EngineError" =>
                (last.call = "destroyProvider" /\ last.message = EngineMessage)
          /\ last.outcome = "ConfigurationError" =>
                (last.call = "none" /\ last.message = NoBackendMessage)

C32_FacadeStep ==
    \A p \in Providers :
        /\ provs[p].exists =>
              /\ provs'[p].exists
              /\ provs'[p].handle = provs[p].handle
              /\ provs[p].destroyed => provs'[p].destroyed
        /\ (~provs[p].exists /\ provs'[p].exists) =>
              /\ ~provs'[p].destroyed
              /\ provs'[p].handle \in Handles
              /\ last'.op = "createProvider" => provs'[p].handle = last'.callHandle

\* C32: getHandle() returns the facade's handle in every state where the
\* facade is not destroyed, and run() passes that handle to the backend.
C32_GetHandleReturnsHandle ==
    /\ \A p \in Providers :
          (provs[p].exists /\ ~provs[p].destroyed) =>
              /\ getHandle(p).ok
              /\ getHandle(p).handle = provs[p].handle
    /\ (last.op = "run" /\ last.call # "none") =>
          last.callHandle = provs[last.p].handle

C32_DestroyedMonotonicHandleConstant ==
    [][C32_FacadeStep]_vars /\ []C32_GetHandleReturnsHandle

\* A destroy() on a facade that an earlier destroy() had destroyed.
C32_Witness ==
    /\ last.op = "destroy"
    /\ last.destroyedBefore
    /\ provs[last.p].destroyed
    /\ Len(destroyLog[last.p]) >= 2

\* An operation on facade p is in flight: a generate() on it, or a run() of an
\* agent over it.
InFlight(p) ==
    \/ genPending[p] # << >>
    \/ \E a \in Agents : agents[a].provider = p /\ runPending[a] # << >>

\* C33: a destroy() called while an operation on the facade is in flight
\* issues backend.destroyProvider in that same call, and leaves every pending
\* operation pending as it was; a pending operation still settles with the
\* outcome of the backend's future, also after the destroy().
C33_DestroyStep ==
    /\ last'.op = "destroy" =>
          /\ genPending' = genPending
          /\ runPending' = runPending
          /\ last'.outcome # "pending"
          /\ (InFlight(last'.p) /\ ~provs[last'.p].destroyed) =>
                /\ last'.call = "destroyProvider"
                /\ last'.callHandle = provs[last'.p].handle
                /\ last'.outcome \in {"ok", "EngineError"}
    /\ last'.op \in {"generateSettle", "runSettle"} =>
          /\ last'.outcome = last'.engine.outcome
          /\ last'.message = last'.engine.message
          /\ provs' = provs

C33_DestroyIgnoresInFlight == [][C33_DestroyStep]_vars

\* A destroy() released the handle while a generate() and a run() on the
\* provider were pending, and both are still pending.
C33_Witness ==
    /\ last.op = "destroy"
    /\ last.call = "destroyProvider"
    /\ last.outcome = "ok"
    /\ provs[last.p].destroyed
    /\ genPending[last.p] # << >>
    /\ \E a \in Agents : agents[a].provider = last.p /\ runPending[a] # << >>

\* C34: in overlapping runs, of one agent or of two agents, every bridge
\* invocation of a run resolves its tool name against the table of the agent
\* whose run() made the run: the entry invoked is that table's entry for the
\* name, and a name that table does not implement is rejected with nothing
\* invoked, whatever the other agent's table holds.
C34_RunsIsolated ==
    \A a \in DOMAIN runPending : \A i \in 1..Len(runPending[a]) :
        LET run == runPending[a][i]
            own == executorMap(agents[a].tools)
        IN  /\ run.map = own
            /\ \A c \in 1..Len(run.calls) :
                  LET call == run.calls[c]
                  IN  /\ call.entry # 0 =>
                            /\ call.tool \in DOMAIN own
                            /\ call.entry = own[call.tool]
                            /\ call.entry \in 1..Len(agents[a].tools)
                            /\ agents[a].tools[call.entry].name = call.tool
                      /\ call.tool \notin DOMAIN own =>
                            /\ call.state = "rejected"
                            /\ call.invoked = 0
                            /\ call.entry = 0

\* Runs of both agents are pending; each called the tool named "A", which
\* the two tables hold at different places, and a run called a tool only the
\* other agent's table implements.
C34_Witness ==
    /\ DOMAIN runPending = OverlapAgents
    /\ \A a \in OverlapAgents : Len(runPending[a]) = 1
    /\ \E c \in 1..Len(runPending[1][1].calls),
          d \in 1..Len(runPending[2][1].calls) :
          /\ runPending[1][1].calls[c].tool = runPending[2][1].calls[d].tool
          /\ runPending[1][1].calls[c].entry # 0
          /\ runPending[2][1].calls[d].entry # 0
          /\ runPending[1][1].calls[c].entry # runPending[2][1].calls[d].entry
    /\ \E a \in OverlapAgents : \E c \in 1..Len(runPending[a][1].calls) :
          /\ runPending[a][1].calls[c].state = "rejected"
          /\ \E b \in OverlapAgents :
                runPending[a][1].calls[c].tool
                    \in DOMAIN executorMap(agents[b].tools)

\* The entry a name resolves to in a table: the last entry of that name that
\* carries an implementation, 0 when no entry of that name carries one.
LastImplemented(tools, n) ==
    LET impl == { j \in 1..Len(tools) :
                    tools[j].name = n /\ tools[j].execute = "function" }
    IN  IF impl = {} THEN 0 ELSE CHOOSE j \in impl : \A k \in impl : k <= j

\* C35, the bridge: a name the table holds several times resolves to the last
\* entry of that name that carries an implementation; an entry without one
\* removes no earlier mapping.
C35_LastImplementationWins ==
    \A a \in Agents : \A i \in 1..Len(runPending[a]) :
        LET run == runPending[a][i]
        IN  \A c \in 1..Len(run.calls) :
                run.calls[c].entry = LastImplemented(run.table, run.calls[c].tool)

\* C35, the schemas: what the engine is sent holds every entry of the table,
\* duplicates included, in table order.
C35_EveryEntryReachesEngine ==
    \A a \in Agents : \A i \in 1..Len(runPending[a]) :
        LET run == runPending[a][i]
        IN  /\ run.schemas = [j \in 1..Len(run.table) |-> run.table[j].name]
            /\ run.native.tools = run.schemas

\* C35 (as stated): both, on every run.
C35_DuplicateNames == C35_LastImplementationWins /\ C35_EveryEntryReachesEngine

\* The keys of a tool schema.
SchemaKeys == {"name", "description", "parameters"}

\* C36: the tool list run() passes to the backend has the length and order
\* of the table and each element has the keys name, description and
\* parameters only; nothing the adapter passes to its module carries an
\* execute or the table; the toolExecutor callback is handed over in Mode B
\* only, and the module gets a callback only when run() handed one over.
C36_ExecuteStaysOnHost ==
    last.op = "runArguments" =>
        LET table == last.request.tools
            handed == last.handed
        IN  /\ Len(handed.tools) = Len(table)
            /\ \A j \in 1..Len(table) :
                  /\ DOMAIN handed.tools[j] = SchemaKeys
                  /\ handed.tools[j].name = table[j].name
                  /\ handed.tools[j].description = table[j].description
                  /\ handed.tools[j].parameters = table[j].parameters
            /\ DOMAIN last.wire.fields \subseteq AgentOptionKeys
            /\ last.request.kind = "wasm" => last.wire.tools = NoTools
            /\ last.request.kind = "napi" =>
                  /\ Len(last.wire.tools) = Len(table)
                  /\ \A j \in 1..Len(table) :
                        /\ DOMAIN last.wire.tools[j] \subseteq SchemaKeys
                        /\ last.wire.tools[j].name = table[j].name
            /\ handed.callback <=> handed.method = "agentRunWithToolExecutor"
            /\ handed.callback <=> Cardinality({ j \in 1..Len(table) :
                                       table[j].execute = "function" }) > 0
            /\ last.hasExec => handed.callback

\* A Mode B run under NAPI over a table of two implemented tools.
C36_Witness ==
    /\ last.op = "runArguments"
    /\ last.request.kind = "napi"
    /\ last.hasExec
    /\ Len(last.request.tools) = 2
    /\ \A j \in 1..2 : last.request.tools[j].execute = "function"
    /\ Len(last.wire.tools) = 2

\* C37 (as stated): under either backend, every optional field of
\* AgentOptions the caller set (instructions, maxSteps, temperature, topP,
\* maxTokens, seed, stopOnTool, outputSchema) is passed to the module with the
\* caller's value, so both backends forward the same fields.
C37_SameOptionsBothStrategies ==
    ( /\ last.op = "marshal"
      /\ last.request.method \in {"agentRun", "agentRunWithToolExecutor"} ) =>
        \A k \in AgentOptionKeys :
            last.request.options[k] # Undefined =>
                /\ k \in DOMAIN last.wire.fields
                /\ last.wire.fields[k] = last.request.options[k]

====
